---- MODULE Spec2Model ----
(***************************************************************************)
(* State-machine model of ctforge/scripts/ctforge.py: the command          *)
(* dispatcher (main), the bootstrap flow (init), the schema and procedure  *)
(* installers, the account provisioner, the bulk user importer and the     *)
(* challenge importer, running one statement at a time against a           *)
(* PostgreSQL store reached through psycopg2 connections.                  *)
(*                                                                         *)
(* One process runs one command; the store outlives the process.  An       *)
(* uncaught exception ends the process with every connection it did not    *)
(* close still open; the server rolls their transactions back only when    *)
(* the process goes away.                                                  *)
(***************************************************************************)
EXTENDS Integers, Sequences, FiniteSets, TLC

VARIABLES
    db,         \* the relational store: the target database on the server
    conns,      \* connections opened by the running process, in order
    pc,         \* control position of the running process
    runs,       \* number of processes started so far
    args,       \* parsed command line of the running process
    resp,       \* last answer returned by ask()
    stream,     \* records the csv reader has yielded so far in imp
    call,       \* arguments of the running db_add_user call
    ret,        \* caller of the running db_add_user call
    chal_info,  \* parsed challenge descriptor in imp_chal
    description,\* local variable description of imp_chal
    log,        \* store interactions of the running process, in order
    exc,        \* the uncaught exception that ended the process, or NoExc
    pre,        \* the store as it was when the process started
    dropped,    \* the store this process dropped, as a sequence of 0 or 1
    adminIdx    \* positions of db.users committed through db_add_admin

vars == <<db, conns, pc, runs, args, resp, stream, call, ret, chal_info,
          description, log, exc, pre, dropped, adminIdx>>

-----------------------------------------------------------------------------
(* Bounds *)

MaxRuns == 2        \* processes started in one behaviour
MaxRecords == 3     \* records read from one users file

None == "None"      \* Python's None

-----------------------------------------------------------------------------
(* The store *)

\* db/schema.sql as the ordered list of relations its statements create.
SchemaScript == <<"teams", "users", "challenges">>

SchemaRelations == {SchemaScript[k] : k \in 1..Len(SchemaScript)}

\* The relations created by the first k statements of the schema script.
Applied(k) == {SchemaScript[j] : j \in 1..k}

\* db/procedures.sql as the ordered list of routines its statements create.
ProceduresScript == <<"routine1", "routine2">>

\* The routines created by the first k statements of the procedures script.
Installed(k) == {ProceduresScript[j] : j \in 1..k}

Routines == Installed(Len(ProceduresScript))

\* The routines refer to the relations of the schema: the script cannot run
\* where they are missing.
ProceduresRunnable(relations) == SchemaRelations \subseteq relations

NoDelta == [relations |-> {}, procs |-> {}, users |-> <<>>, challenges |-> <<>>]

AbsentDB == [exists |-> FALSE, relations |-> {}, procs |-> {},
             users |-> <<>>, challenges |-> <<>>]

\* The database right after CREATE DATABASE.
EmptyDB == [AbsentDB EXCEPT !.exists = TRUE]

\* The database right after the schema script committed.
BaselineDB == [EmptyDB EXCEPT !.relations = SchemaRelations]

\* bcrypt.hashpw(password, bcrypt.gensalt()): a token embedding the salt.
Salts == {"salt1", "salt2"}

gensalt == Salts

hashpw(password, salt) == <<"$2b$12$", salt, "H(" \o salt \o "," \o password \o ")">>

\* One row of the users relation, columns in the order of the INSERT.
UserRow(team_id, name, surname, nickname, mail, affiliation, password, admin, hidden) ==
    [team_id |-> team_id, name |-> name, surname |-> surname,
     nickname |-> nickname, mail |-> mail, affiliation |-> affiliation,
     password |-> password, admin |-> admin, hidden |-> hidden]

\* One row of the challenges relation, columns in the order of the INSERT.
ChallengeRow(name, descr, flag, points, tags, active, hidden, writeup) ==
    [name |-> name, description |-> descr, flag |-> flag, points |-> points,
     tags |-> tags, active |-> active, hidden |-> hidden, writeup |-> writeup]

\* Uniqueness of mail and of (non-null) nickname, enforced by the schema.
UniqueViolation(row, rows) ==
    \E k \in 1..Len(rows) :
        \/ rows[k].mail = row.mail
        \/ (row.nickname # None /\ rows[k].nickname = row.nickname)

\* What a transaction's writes do to the store when it commits.
Apply(d, delta) ==
    [exists |-> d.exists,
     relations |-> d.relations \cup delta.relations,
     procs |-> d.procs \cup delta.procs,
     users |-> d.users \o delta.users,
     challenges |-> d.challenges \o delta.challenges]

-----------------------------------------------------------------------------
(* Connections (psycopg2) *)

\* database.db_connect(database): a new connection, not autocommit.
db_connect(target) ==
    [target |-> target, autocommit |-> FALSE, open |-> TRUE,
     tx |-> "idle", pending |-> NoDelta]

cur == Len(conns)

\* db_conn.close(): an unfinished transaction is rolled back by the server.
CloseConn(c) == [c EXCEPT !.open = FALSE, !.tx = "idle", !.pending = NoDelta]

\* db_conn.commit(): the transaction's writes reach the store.
CommitConn(c) == [c EXCEPT !.tx = "idle", !.pending = NoDelta]

\* The rows of relation users visible to a statement on connection c.
VisibleUsers(c) == db.users \o c.pending.users

\* The relations visible to a statement on connection c.
VisibleRelations(c) == db.relations \cup c.pending.relations

\* No exception.
NoExc == [kind |-> None, fn |-> None, line |-> 0]

\* An exception nothing catches: the process dies with a traceback.
Raise(kind, fn, line) ==
    /\ pc' = "raised"
    /\ exc' = [kind |-> kind, fn |-> fn, line |-> line]

-----------------------------------------------------------------------------
(* Inputs *)

Commands == {"run", "init", "import_users", "import_challenge", None}

Answers == {"y", "Y", "n", "yes", ""}

Secrets == {"pw1", "pw2"}

\* --public-files-uri: its default, and a folder without a trailing slash.
DefaultPublicFolder == <<"/", "data", "/", "public_files", "/">>

PublicFolders == {DefaultPublicFolder, <<"/", "pub">>}

\* name, surname, nickname, mail typed or passed to init.
AdminInputs == {<<"Ada", "Root", "root", "root@ctf">>,
                <<"Bob", "Adm", "bob", "bob@ctf">>}

\* An account and a challenge as earlier runs leave them in the store.
OldAdmin == UserRow(None, "Ada", "Root", "root", "root@ctf", None,
                    hashpw("pw1", "salt1"), TRUE, TRUE)

OldUser == UserRow(None, "Eve", "Old", None, "eve@ctf", "Uni",
                   hashpw("pw2", "salt1"), FALSE, FALSE)

OldChallenge == ChallengeRow(<<"warmup">>, <<"old">>, <<"flag{0}">>, 10, <<"misc">>, FALSE, TRUE, FALSE)

ProvisionedDB == [BaselineDB EXCEPT !.procs = Routines,
                                    !.users = <<OldAdmin, OldUser>>,
                                    !.challenges = <<OldChallenge>>]

InitialStores == {AbsentDB, EmptyDB, BaselineDB, ProvisionedDB}

AdminPositions(d) == {k \in 1..Len(d.users) : d.users[k] = OldAdmin}

-----------------------------------------------------------------------------
(* Initial state: no process running, the store in any state earlier runs  *)
(* can have left it in.                                                    *)

Init ==
    /\ db \in InitialStores
    /\ conns = <<>>
    /\ pc = "idle"
    /\ runs = 0
    /\ args = [command |-> None, yes |-> FALSE, users |-> FALSE,
               public_files_uri |-> DefaultPublicFolder]
    /\ resp = None
    /\ stream = <<>>
    /\ call = None
    /\ ret = None
    /\ chal_info = None
    /\ description = None
    /\ log = <<>>
    /\ exc = NoExc
    /\ pre = db
    /\ dropped = <<>>
    /\ adminIdx = AdminPositions(db)

-----------------------------------------------------------------------------
(* main *)

\* Where main sends each command.
Dispatch(a) ==
    CASE a.command = "run" -> "run"
      [] a.command = "init" -> "init_ask"
      [] a.command = "import_users" -> "imp"
      [] a.command = "import_challenge" -> "imp_chal"
      [] OTHER -> "exit1"

\* A new process: parse_args, read the configuration, dispatch.
main ==
    /\ pc = "idle"
    /\ runs < MaxRuns
    /\ runs' = runs + 1
    /\ \E c \in Commands, y \in BOOLEAN, u \in BOOLEAN, f \in PublicFolders,
          confOk \in BOOLEAN :
        /\ y => c = "init"
        /\ u => c = "import_users"
        /\ f # DefaultPublicFolder => c = "import_challenge"
        /\ args' = [command |-> c, yes |-> y, users |-> u, public_files_uri |-> f]
        /\ pc' = IF confOk THEN Dispatch(args') ELSE "exit1"
    /\ resp' = None
    /\ stream' = <<>>
    /\ call' = None
    /\ ret' = None
    /\ chal_info' = None
    /\ description' = None
    /\ log' = <<>>
    /\ exc' = NoExc
    /\ pre' = db
    /\ dropped' = <<>>
    /\ UNCHANGED <<db, conns, adminIdx>>

\* run: hands over to the web application, which this script does not contain.
run ==
    /\ pc = "run"
    /\ pc' = "exit0"
    /\ UNCHANGED <<db, conns, runs, args, resp, stream, call, ret, chal_info,
                   description, log, exc, pre, dropped, adminIdx>>

\* The process goes away: sys.exit or the traceback of an uncaught
\* exception.  The server drops every connection still open and rolls back.
ProcessExit ==
    /\ pc \in {"exit0", "exit1", "raised"}
    /\ pc' = "idle"
    /\ conns' = <<>>
    /\ UNCHANGED <<db, runs, args, resp, stream, call, ret, chal_info,
                   description, log, exc, pre, dropped, adminIdx>>

-----------------------------------------------------------------------------
(* exit_on_resp, ask *)

\* Variant: only an explicit no stops the run.
exit_on_resp_lenient(r, next) == IF r \in {"n", "N"} THEN "exit1" ELSE next

\* exit_on_resp: the pc to continue at, or the exit.
exit_on_resp(r, next) == IF r \notin {"y", "Y"} THEN "exit1" ELSE next

\* ask(question, answer): the set of values it can return.
ask(answer) == IF answer # None THEN {answer} ELSE Answers

-----------------------------------------------------------------------------
(* init *)

\* init, lines 87-92: the proceed question.
init_ask ==
    /\ pc = "init_ask"
    /\ \E r \in ask(IF args.yes THEN "y" ELSE None) :
        /\ resp' = r
        /\ pc' = exit_on_resp(r, "db_create_schema")
    /\ UNCHANGED <<db, conns, runs, args, stream, call, ret, chal_info,
                   description, log, exc, pre, dropped, adminIdx>>

-----------------------------------------------------------------------------
(* db_create_schema *)

\* Lines 39-40: the administrative connection, autocommit.
db_create_schema_connect_admin ==
    /\ pc = "db_create_schema"
    /\ \E ok \in BOOLEAN :
        IF ok
        THEN /\ conns' = Append(conns, [db_connect("postgres") EXCEPT !.autocommit = TRUE])
             /\ log' = Append(log, "connect postgres")
             /\ pc' = "cs_drop"
             /\ UNCHANGED exc
        ELSE /\ Raise("ConnectionError", "db_create_schema", 39)
             /\ UNCHANGED <<conns, log>>
    /\ UNCHANGED <<db, runs, args, resp, stream, call, ret, chal_info,
                   description, pre, dropped, adminIdx>>

\* Line 42: DROP DATABASE IF EXISTS, committed at once.
db_create_schema_drop ==
    /\ pc = "cs_drop"
    /\ log' = Append(log, "DROP DATABASE")
    /\ \E ok \in BOOLEAN :
        IF ok
        THEN /\ db' = AbsentDB
             /\ dropped' = <<db>>
             /\ adminIdx' = {}
             /\ pc' = "cs_create"
             /\ UNCHANGED exc
        ELSE /\ Raise("DDLFailure", "db_create_schema", 42)
             /\ UNCHANGED <<db, dropped, adminIdx>>
    /\ UNCHANGED <<conns, runs, args, resp, stream, call, ret, chal_info,
                   description, pre>>

\* Variant: a failure of CREATE DATABASE is caught and the installer goes on.
db_create_schema_create_swallow ==
    /\ pc = "cs_create"
    /\ log' = Append(log, "CREATE DATABASE")
    /\ pc' = "cs_close_admin"
    /\ \E ok \in BOOLEAN :
        IF ok /\ ~db.exists
        THEN /\ db' = EmptyDB
             /\ UNCHANGED exc
        ELSE /\ exc' = [kind |-> "DDLFailure", fn |-> "db_create_schema", line |-> 43]
             /\ UNCHANGED db
    /\ UNCHANGED <<conns, runs, args, resp, stream, call, ret, chal_info,
                   description, pre, dropped, adminIdx>>

\* Line 43: CREATE DATABASE, committed at once.
db_create_schema_create ==
    /\ pc = "cs_create"
    /\ log' = Append(log, "CREATE DATABASE")
    /\ \E ok \in BOOLEAN :
        IF ok /\ ~db.exists
        THEN /\ db' = EmptyDB
             /\ pc' = "cs_close_admin"
             /\ UNCHANGED exc
        ELSE /\ Raise("DDLFailure", "db_create_schema", 43)
             /\ UNCHANGED db
    /\ UNCHANGED <<conns, runs, args, resp, stream, call, ret, chal_info,
                   description, pre, dropped, adminIdx>>

\* Variant: line 44 missing, the administrative connection stays open.
db_create_schema_close_admin_skipped ==
    /\ pc = "cs_close_admin"
    /\ pc' = "cs_connect"
    /\ UNCHANGED <<db, conns, runs, args, resp, stream, call, ret, chal_info,
                   description, log, exc, pre, dropped, adminIdx>>

\* Line 44: the administrative connection is closed.
db_create_schema_close_admin ==
    /\ pc = "cs_close_admin"
    /\ conns' = [conns EXCEPT ![cur] = CloseConn(@)]
    /\ log' = Append(log, "close postgres")
    /\ pc' = "cs_connect"
    /\ UNCHANGED <<db, runs, args, resp, stream, call, ret, chal_info,
                   description, exc, pre, dropped, adminIdx>>

\* Line 46: the connection to the target database.
db_create_schema_connect ==
    /\ pc = "cs_connect"
    /\ \E ok \in BOOLEAN :
        IF ok /\ db.exists
        THEN /\ conns' = Append(conns, db_connect("target"))
             /\ log' = Append(log, "connect target")
             /\ pc' = "cs_script"
             /\ UNCHANGED exc
        ELSE /\ Raise("ConnectionError", "db_create_schema", 46)
             /\ UNCHANGED <<conns, log>>
    /\ UNCHANGED <<db, runs, args, resp, stream, call, ret, chal_info,
                   description, pre, dropped, adminIdx>>

\* What executing the first k statements of the schema script does to the
\* connection: line 48, inside the transaction the first statement opens.
RunSchemaScript(c, k) ==
    [c EXCEPT !.tx = IF k = Len(SchemaScript) THEN "active" ELSE "failed",
              !.pending = [@ EXCEPT !.relations = Applied(k)]]

\* Variant: the step-2 connection is autocommit too, so every statement of
\* the script is committed as it is executed.
db_create_schema_script_autocommit ==
    /\ pc = "cs_script"
    /\ log' = Append(log, "schema.sql")
    /\ \E k \in 0..Len(SchemaScript) :
        /\ db' = [db EXCEPT !.relations = @ \cup Applied(k)]
        /\ IF k = Len(SchemaScript)
           THEN pc' = "cs_commit" /\ UNCHANGED exc
           ELSE Raise("DDLFailure", "db_create_schema", 48)
    /\ UNCHANGED <<conns, runs, args, resp, stream, call, ret, chal_info,
                   description, pre, dropped, adminIdx>>

\* Line 48: the schema script; statement k+1 may fail.
db_create_schema_script ==
    /\ pc = "cs_script"
    /\ log' = Append(log, "schema.sql")
    /\ \E k \in 0..Len(SchemaScript) :
        /\ conns' = [conns EXCEPT ![cur] = RunSchemaScript(@, k)]
        /\ IF k = Len(SchemaScript)
           THEN pc' = "cs_commit" /\ UNCHANGED exc
           ELSE Raise("DDLFailure", "db_create_schema", 48)
    /\ UNCHANGED <<db, runs, args, resp, stream, call, ret, chal_info,
                   description, pre, dropped, adminIdx>>

\* Variant: line 49 missing, the schema transaction is never committed.
db_create_schema_commit_skipped ==
    /\ pc = "cs_commit"
    /\ pc' = "cs_close"
    /\ UNCHANGED <<db, conns, runs, args, resp, stream, call, ret, chal_info,
                   description, log, exc, pre, dropped, adminIdx>>

\* Line 49: commit.
db_create_schema_commit ==
    /\ pc = "cs_commit"
    /\ db' = Apply(db, conns[cur].pending)
    /\ conns' = [conns EXCEPT ![cur] = CommitConn(@)]
    /\ log' = Append(log, "commit")
    /\ pc' = "cs_close"
    /\ UNCHANGED <<runs, args, resp, stream, call, ret, chal_info,
                   description, exc, pre, dropped, adminIdx>>

\* Variant: init adds the administrator right after the schema, before the
\* procedures.
db_create_schema_close_then_admin ==
    /\ pc = "cs_close"
    /\ conns' = [conns EXCEPT ![cur] = CloseConn(@)]
    /\ log' = Append(log, "close target")
    /\ pc' = "init_admin"
    /\ UNCHANGED <<db, runs, args, resp, stream, call, ret, chal_info,
                   description, exc, pre, dropped, adminIdx>>

\* Line 50: close; back in init at line 97.
db_create_schema_close ==
    /\ pc = "cs_close"
    /\ conns' = [conns EXCEPT ![cur] = CloseConn(@)]
    /\ log' = Append(log, "close target")
    /\ pc' = "db_create_procedures"
    /\ UNCHANGED <<db, runs, args, resp, stream, call, ret, chal_info,
                   description, exc, pre, dropped, adminIdx>>

-----------------------------------------------------------------------------
(* db_create_procedures *)

\* Line 53: the connection to the target database.
db_create_procedures_connect ==
    /\ pc = "db_create_procedures"
    /\ \E ok \in BOOLEAN :
        IF ok /\ db.exists
        THEN /\ conns' = Append(conns, db_connect("target"))
             /\ log' = Append(log, "connect target")
             /\ pc' = "cp_script"
             /\ UNCHANGED exc
        ELSE /\ Raise("ConnectionError", "db_create_procedures", 53)
             /\ UNCHANGED <<conns, log>>
    /\ UNCHANGED <<db, runs, args, resp, stream, call, ret, chal_info,
                   description, pre, dropped, adminIdx>>

\* What executing the procedures script up to a failure of statement k+1
\* does to the connection: line 55, inside the transaction the first
\* statement opens.  Without the schema the first statement fails.
RunProceduresScript(c, k) ==
    LET n == IF ProceduresRunnable(VisibleRelations(c)) THEN k ELSE 0
    IN  [c EXCEPT !.tx = IF n = Len(ProceduresScript) THEN "active" ELSE "failed",
                  !.pending = [@ EXCEPT !.procs = Installed(n)]]

\* Variant: the connection is autocommit, so every statement of the script
\* is committed as it is executed.
db_create_procedures_script_autocommit ==
    /\ pc = "cp_script"
    /\ log' = Append(log, "procedures.sql")
    /\ \E k \in 0..Len(ProceduresScript) :
        /\ db' = [db EXCEPT !.procs = @ \cup Installed(k)]
        /\ IF k = Len(ProceduresScript)
           THEN pc' = "cp_commit" /\ UNCHANGED exc
           ELSE Raise("DDLFailure", "db_create_procedures", 55)
    /\ UNCHANGED <<conns, runs, args, resp, stream, call, ret, chal_info,
                   description, pre, dropped, adminIdx>>

\* Line 55: the procedures script; statement k+1 may fail.
db_create_procedures_script ==
    /\ pc = "cp_script"
    /\ log' = Append(log, "procedures.sql")
    /\ \E k \in 0..Len(ProceduresScript) :
        /\ conns' = [conns EXCEPT ![cur] = RunProceduresScript(@, k)]
        /\ IF conns'[cur].tx = "active"
           THEN pc' = "cp_commit" /\ UNCHANGED exc
           ELSE Raise("DDLFailure", "db_create_procedures", 55)
    /\ UNCHANGED <<db, runs, args, resp, stream, call, ret, chal_info,
                   description, pre, dropped, adminIdx>>

\* Variant: line 56 missing, the procedures transaction is never committed.
db_create_procedures_commit_skipped ==
    /\ pc = "cp_commit"
    /\ pc' = "cp_close"
    /\ UNCHANGED <<db, conns, runs, args, resp, stream, call, ret, chal_info,
                   description, log, exc, pre, dropped, adminIdx>>

\* Line 56: commit.
db_create_procedures_commit ==
    /\ pc = "cp_commit"
    /\ db' = Apply(db, conns[cur].pending)
    /\ conns' = [conns EXCEPT ![cur] = CommitConn(@)]
    /\ log' = Append(log, "commit")
    /\ pc' = "cp_close"
    /\ UNCHANGED <<runs, args, resp, stream, call, ret, chal_info,
                   description, exc, pre, dropped, adminIdx>>

\* Line 57: close; back in init at line 100.
db_create_procedures_close ==
    /\ pc = "cp_close"
    /\ conns' = [conns EXCEPT ![cur] = CloseConn(@)]
    /\ log' = Append(log, "close target")
    /\ pc' = "init_admin"
    /\ UNCHANGED <<db, runs, args, resp, stream, call, ret, chal_info,
                   description, exc, pre, dropped, adminIdx>>

-----------------------------------------------------------------------------
(* db_add_admin, db_add_user *)

\* The parameters of db_add_user, defaults filled in by the caller.
db_add_user_args(name, surname, nickname, mail, affiliation, password, admin, hidden, team_id) ==
    [name |-> name, surname |-> surname, nickname |-> nickname, mail |-> mail,
     affiliation |-> affiliation, password |-> password,
     admin |-> admin, hidden |-> hidden, team_id |-> team_id]

\* Variant: the flags are left to the defaults of db_add_user.
db_add_admin_defaults(name, surname, nickname, mail, affiliation, password) ==
    db_add_user_args(name, surname, nickname, mail, affiliation, password,
                     FALSE, FALSE, None)

\* db_add_admin: the db_add_user call it makes.
db_add_admin(name, surname, nickname, mail, affiliation, password) ==
    db_add_user_args(name, surname, nickname, mail, affiliation, password,
                     TRUE, TRUE, None)

\* Where control goes when db_add_user returns.
ReturnTo(caller) == IF caller = "db_add_admin" THEN "init_save" ELSE "imp_loop"

\* Variant: imp catches the exception and goes on with the next record.
Propagate_resume(caller) == IF caller = "imp" THEN "imp_loop" ELSE "raised"

\* Where an exception leaving db_add_user goes: neither init nor imp has a
\* handler, so it leaves them too.
Propagate(caller) == "raised"

\* Line 63: the connection to the target database.
db_add_user_connect ==
    /\ pc = "db_add_user"
    /\ \E ok \in BOOLEAN :
        IF ok /\ db.exists
        THEN /\ conns' = Append(conns, db_connect("target"))
             /\ log' = Append(log, "connect target")
             /\ pc' = "au_execute"
             /\ UNCHANGED exc
        ELSE /\ pc' = Propagate(ret)
             /\ exc' = [kind |-> "ConnectionError", fn |-> "db_add_user", line |-> 63]
             /\ UNCHANGED <<conns, log>>
    /\ UNCHANGED <<db, runs, args, resp, stream, call, ret, chal_info,
                   description, pre, dropped, adminIdx>>

\* Variant: the password is stored as supplied.
InsertedUser_plaintext(a, salt) ==
    UserRow(a.team_id, a.name, a.surname, a.nickname, a.mail, a.affiliation,
            a.password, a.admin, a.hidden)

\* The row the INSERT of lines 65-69 sends, given the salt drawn.
InsertedUser(a, salt) ==
    UserRow(a.team_id, a.name, a.surname, a.nickname, a.mail, a.affiliation,
            hashpw(a.password, salt), a.admin, a.hidden)

\* What the INSERT does to the connection: it opens the transaction, and
\* fails when the relation is missing or a uniqueness constraint is violated.
RunInsertUser(c, row) ==
    IF "users" \in VisibleRelations(c) /\ ~UniqueViolation(row, VisibleUsers(c))
    THEN [c EXCEPT !.tx = "active",
                   !.pending = [@ EXCEPT !.users = Append(@, row)]]
    ELSE [c EXCEPT !.tx = "failed"]

\* Variant: a failed INSERT is rolled back and sent again.
db_add_user_execute_retry ==
    /\ pc = "au_execute"
    /\ \E hashOk \in BOOLEAN, salt \in gensalt :
        IF ~hashOk
        THEN /\ pc' = Propagate(ret)
             /\ exc' = [kind |-> "HashingError", fn |-> "db_add_user", line |-> 68]
             /\ UNCHANGED <<conns, log>>
        ELSE /\ log' = Append(log, "INSERT users")
             /\ UNCHANGED exc
             /\ IF RunInsertUser(conns[cur], InsertedUser(call, salt)).tx = "active"
                THEN /\ conns' = [conns EXCEPT ![cur] = RunInsertUser(@, InsertedUser(call, salt))]
                     /\ pc' = "au_commit"
                ELSE /\ UNCHANGED conns
                     /\ pc' = "au_execute"
    /\ UNCHANGED <<db, runs, args, resp, stream, call, ret, chal_info,
                   description, pre, dropped, adminIdx>>

\* Lines 64-69: the parameters are built (the password is hashed) and the
\* INSERT is executed.
db_add_user_execute ==
    /\ pc = "au_execute"
    /\ \E hashOk \in BOOLEAN, salt \in gensalt :
        IF ~hashOk
        THEN /\ pc' = Propagate(ret)
             /\ exc' = [kind |-> "HashingError", fn |-> "db_add_user", line |-> 68]
             /\ UNCHANGED <<conns, log>>
        ELSE /\ conns' = [conns EXCEPT ![cur] = RunInsertUser(@, InsertedUser(call, salt))]
             /\ log' = Append(log, "INSERT users")
             /\ IF conns'[cur].tx = "active"
                THEN pc' = "au_commit" /\ UNCHANGED exc
                ELSE /\ pc' = Propagate(ret)
                     /\ exc' = [kind |-> IF "users" \in VisibleRelations(conns[cur])
                                         THEN "ConstraintViolation" ELSE "DDLFailure",
                                fn |-> "db_add_user", line |-> 65]
    /\ UNCHANGED <<db, runs, args, resp, stream, call, ret, chal_info,
                   description, pre, dropped, adminIdx>>

\* Variant: line 70 missing, the transaction is never committed.
db_add_user_commit_skipped ==
    /\ pc = "au_commit"
    /\ pc' = "au_close"
    /\ UNCHANGED <<db, conns, runs, args, resp, stream, call, ret, chal_info,
                   description, log, exc, pre, dropped, adminIdx>>

\* Line 70: commit.
db_add_user_commit ==
    /\ pc = "au_commit"
    /\ db' = Apply(db, conns[cur].pending)
    /\ conns' = [conns EXCEPT ![cur] = CommitConn(@)]
    /\ log' = Append(log, "commit")
    /\ adminIdx' = IF ret = "db_add_admin"
                   THEN adminIdx \cup {Len(db'.users)} ELSE adminIdx
    /\ pc' = "au_close"
    /\ UNCHANGED <<runs, args, resp, stream, call, ret, chal_info,
                   description, exc, pre, dropped>>

\* Line 71: close; back in the caller.
db_add_user_close ==
    /\ pc = "au_close"
    /\ conns' = [conns EXCEPT ![cur] = CloseConn(@)]
    /\ log' = Append(log, "close target")
    /\ pc' = ReturnTo(ret)
    /\ UNCHANGED <<db, runs, args, resp, stream, call, ret, chal_info,
                   description, exc, pre, dropped, adminIdx>>

-----------------------------------------------------------------------------
(* init, continued *)

\* Lines 100-117: the administrator's data, from the options or typed; a
\* typed password is typed twice.
init_admin ==
    /\ pc = "init_admin"
    /\ \E a \in AdminInputs, option \in {None} \cup Secrets,
          typed \in Secrets, typed_rep \in Secrets :
        IF option = None /\ typed # typed_rep
        THEN /\ pc' = "exit1"
             /\ UNCHANGED <<call, ret>>
        ELSE /\ call' = db_add_admin(a[1], a[2], a[3], a[4], None,
                                     IF option = None THEN typed ELSE option)
             /\ ret' = "db_add_admin"
             /\ pc' = "db_add_user"
    /\ UNCHANGED <<db, conns, runs, args, resp, stream, chal_info,
                   description, log, exc, pre, dropped, adminIdx>>

\* Lines 119-125: the configuration file is saved, if accepted.
init_save ==
    /\ pc = "init_save"
    /\ \E r \in ask(IF args.yes THEN "y" ELSE None) :
        /\ resp' = r
        /\ pc' = exit_on_resp(r, "init_log")
    /\ UNCHANGED <<db, conns, runs, args, stream, call, ret, chal_info,
                   description, log, exc, pre, dropped, adminIdx>>

\* Lines 127-136: the log directory and the log file are created, if
\* configured, missing and accepted; init returns and main exits.
init_log ==
    /\ pc = "init_log"
    /\ \E missing \in BOOLEAN :
        IF ~missing
        THEN pc' = "exit0" /\ UNCHANGED resp
        ELSE \E r1 \in ask(IF args.yes THEN "y" ELSE None),
                r2 \in ask(IF args.yes THEN "y" ELSE None) :
                /\ resp' = IF r1 \in {"y", "Y"} THEN r2 ELSE r1
                /\ pc' = exit_on_resp(r1, exit_on_resp(r2, "exit0"))
    /\ UNCHANGED <<db, conns, runs, args, stream, call, ret, chal_info,
                   description, log, exc, pre, dropped, adminIdx>>

-----------------------------------------------------------------------------
(* imp *)

\* Records a users file can hold: well-formed ones, and ones of other arity.
Records == {<<"Al", "One", "al", "al@ctf", "Uni", "pw1">>,
            <<"Bo", "Two", "bo", "bo@ctf", "Uni", "pw2">>,
            <<"Cy", "Three">>,
            <<"Di", "Four", "di", "di@ctf", "Uni", "pw1", "extra">>,
            <<>>}

\* Variant: the nickname field of the record is imported.
imp_call_nickname(user) ==
    db_add_user_args(user[1], user[2], user[3], user[4], user[5], user[6],
                     FALSE, FALSE, None)

\* Line 149: the db_add_user call imp makes for a record; fields are read by
\* index, 0-based in the source.
imp_call(user) ==
    db_add_user_args(user[1], user[2], None, user[4], user[5], user[6],
                     FALSE, FALSE, None)

\* Line 149 raises IndexError when an index read is out of range.
imp_IndexError(user) == Len(user) < 6

\* Lines 143-145: nothing to do without a users file.
imp ==
    /\ pc = "imp"
    /\ pc' = IF args.users THEN "imp_loop" ELSE "exit0"
    /\ UNCHANGED <<db, conns, runs, args, resp, stream, call, ret, chal_info,
                   description, log, exc, pre, dropped, adminIdx>>

\* Lines 146-149: the reader yields the next record, its index is printed,
\* and db_add_user is called for it.
imp_next ==
    /\ pc = "imp_loop"
    /\ Len(stream) < MaxRecords
    /\ \E user \in Records :
        /\ stream' = Append(stream, user)
        /\ IF imp_IndexError(user)
           THEN /\ Raise("MalformedInput", "imp", 149)
                /\ UNCHANGED <<call, ret>>
           ELSE /\ call' = imp_call(user)
                /\ ret' = "imp"
                /\ pc' = "db_add_user"
                /\ UNCHANGED exc
    /\ UNCHANGED <<db, conns, runs, args, resp, chal_info,
                   description, log, pre, dropped, adminIdx>>

\* Lines 150-151: the reader is exhausted; imp returns and main exits.
imp_done ==
    /\ pc = "imp_loop"
    /\ pc' = "exit0"
    /\ UNCHANGED <<db, conns, runs, args, resp, stream, call, ret, chal_info,
                   description, log, exc, pre, dropped, adminIdx>>

-----------------------------------------------------------------------------
(* imp_chal *)

\* Text is modelled as a sequence of tokens; "/" is a token of its own.
Text(s) == <<s>>

RequiredKeys == {"title", "description", "flag", "points", "tags", "public_files"}

Descriptor1 ==
    [title |-> Text("web1"), description |-> Text("Pwn it."), flag |-> Text("flag{1}"),
     points |-> 100, tags |-> <<Text("web"), Text("sql")>>, public_files |-> <<>>]

Descriptor2 ==
    [Descriptor1 EXCEPT !.public_files = <<Text("writeup.pdf"), <<"/", "etc", "/", "motd">>>>,
                        !.tags = <<Text("pwn")>>]

\* A descriptor that carries keys of its own for the three flags.
Descriptor3 ==
    [title |-> Text("web1"), description |-> Text("Pwn it."), flag |-> Text("flag{1}"),
     points |-> 100, tags |-> <<>>, public_files |-> <<Text("a.bin")>>,
     active |-> TRUE, hidden |-> FALSE, writeup |-> TRUE]

Without(d, key) == [k \in (DOMAIN d) \ {key} |-> d[k]]

Descriptors ==
    {Descriptor1, Descriptor2, Descriptor3}
        \cup {Without(Descriptor1, key) : key \in RequiredKeys}

\* os.path.join(a, b) for two components.
path_join(a, b) ==
    IF Len(b) > 0 /\ b[1] = "/" THEN b
    ELSE IF Len(a) = 0 \/ a[Len(a)] = "/" THEN a \o b
    ELSE a \o <<"/">> \o b

\* Lines 164-165: one list item.
ListItem(public_folder, f) ==
    <<"<li><a href=\"">> \o path_join(public_folder, f) \o <<"\">">> \o f \o <<"</a></li>">>

RECURSIVE ListItems(_, _)
\* Lines 163-165: the items of the files, in order.
ListItems(public_folder, files) ==
    IF files = <<>> THEN <<>>
    ELSE ListItem(public_folder, Head(files)) \o ListItems(public_folder, Tail(files))

\* Lines 160-166: the description stored.
Describe(info, public_folder) ==
    IF info.public_files # <<>>
    THEN info.description \o <<"<br><br><p><b>Public Files:</b></p><ul>">>
            \o ListItems(public_folder, info.public_files) \o <<"</ul>">>
    ELSE info.description

RECURSIVE Join(_, _)
\* sep.join(parts)
Join(sep, parts) ==
    IF parts = <<>> THEN <<>>
    ELSE IF Len(parts) = 1 THEN parts[1]
    ELSE parts[1] \o sep \o Join(sep, Tail(parts))

\* Variant: the flags are taken from the descriptor when it carries them.
InsertedChallenge_from_descriptor(info, descr) ==
    ChallengeRow(info.title, descr, info.flag, info.points,
                 Join(<<"/">>, info.tags),
                 IF "active" \in DOMAIN info THEN info.active ELSE FALSE,
                 IF "hidden" \in DOMAIN info THEN info.hidden ELSE TRUE,
                 IF "writeup" \in DOMAIN info THEN info.writeup ELSE FALSE)

\* Lines 167-171: the row inserted.
InsertedChallenge(info, descr) ==
    ChallengeRow(info.title, descr, info.flag, info.points,
                 Join(<<"/">>, info.tags), FALSE, TRUE, FALSE)

\* Lines 154-155: the descriptor is parsed and its title printed.
imp_chal_parse ==
    /\ pc = "imp_chal"
    /\ \E parses \in BOOLEAN, info \in Descriptors :
        IF parses /\ "title" \in DOMAIN info
        THEN /\ chal_info' = info
             /\ pc' = "ic_connect"
             /\ UNCHANGED exc
        ELSE /\ Raise("MalformedInput", "imp_chal", 154)
             /\ UNCHANGED chal_info
    /\ UNCHANGED <<db, conns, runs, args, resp, stream, call, ret,
                   description, log, pre, dropped, adminIdx>>

\* Lines 156-157: the connection to the target database, autocommit.
imp_chal_connect ==
    /\ pc = "ic_connect"
    /\ \E ok \in BOOLEAN :
        IF ok /\ db.exists
        THEN /\ conns' = Append(conns, [db_connect("target") EXCEPT !.autocommit = TRUE])
             /\ log' = Append(log, "connect target")
             /\ pc' = "ic_describe"
             /\ UNCHANGED exc
        ELSE /\ Raise("ConnectionError", "imp_chal", 156)
             /\ UNCHANGED <<conns, log>>
    /\ UNCHANGED <<db, runs, args, resp, stream, call, ret, chal_info,
                   description, pre, dropped, adminIdx>>

\* Lines 160-166: the description is derived.
imp_chal_describe ==
    /\ pc = "ic_describe"
    /\ IF {"description", "public_files"} \subseteq DOMAIN chal_info
       THEN /\ description' = Describe(chal_info, args.public_files_uri)
            /\ pc' = "ic_execute"
            /\ UNCHANGED exc
       ELSE /\ Raise("MalformedInput", "imp_chal", 160)
            /\ UNCHANGED description
    /\ UNCHANGED <<db, conns, runs, args, resp, stream, call, ret, chal_info,
                   log, pre, dropped, adminIdx>>

\* Variant: a challenge of the same name is deleted before the INSERT, so a
\* second import replaces the first.
imp_chal_execute_replace ==
    /\ pc = "ic_execute"
    /\ IF ~({"title", "flag", "points", "tags"} \subseteq DOMAIN chal_info)
       THEN /\ Raise("MalformedInput", "imp_chal", 167)
            /\ UNCHANGED <<db, log>>
       ELSE /\ log' = Append(log, "INSERT challenges")
            /\ IF "challenges" \in VisibleRelations(conns[cur])
               THEN /\ db' = [db EXCEPT !.challenges =
                                Append(SelectSeq(@, LAMBDA row : row.name # chal_info.title),
                                       InsertedChallenge(chal_info, description))]
                    /\ pc' = "ic_close"
                    /\ UNCHANGED exc
               ELSE /\ Raise("DDLFailure", "imp_chal", 167)
                    /\ UNCHANGED db
    /\ UNCHANGED <<conns, runs, args, resp, stream, call, ret, chal_info,
                   description, pre, dropped, adminIdx>>

\* Lines 167-171: the parameters are built and the INSERT is executed; the
\* connection is autocommit, so the row is committed at once.
imp_chal_execute ==
    /\ pc = "ic_execute"
    /\ IF ~({"title", "flag", "points", "tags"} \subseteq DOMAIN chal_info)
       THEN /\ Raise("MalformedInput", "imp_chal", 167)
            /\ UNCHANGED <<db, log>>
       ELSE /\ log' = Append(log, "INSERT challenges")
            /\ IF "challenges" \in VisibleRelations(conns[cur])
               THEN /\ db' = [db EXCEPT !.challenges =
                                Append(@, InsertedChallenge(chal_info, description))]
                    /\ pc' = "ic_close"
                    /\ UNCHANGED exc
               ELSE /\ Raise("DDLFailure", "imp_chal", 167)
                    /\ UNCHANGED db
    /\ UNCHANGED <<conns, runs, args, resp, stream, call, ret, chal_info,
                   description, pre, dropped, adminIdx>>

\* Lines 172-173: close; imp_chal returns and main exits.
imp_chal_close ==
    /\ pc = "ic_close"
    /\ conns' = [conns EXCEPT ![cur] = CloseConn(@)]
    /\ log' = Append(log, "close target")
    /\ pc' = "exit0"
    /\ UNCHANGED <<db, runs, args, resp, stream, call, ret, chal_info,
                   description, exc, pre, dropped, adminIdx>>

-----------------------------------------------------------------------------

Next ==
    \/ main
    \/ run
    \/ ProcessExit
    \/ init_ask
    \/ db_create_schema_connect_admin
    \/ db_create_schema_drop
    \/ db_create_schema_create
    \/ db_create_schema_close_admin
    \/ db_create_schema_connect
    \/ db_create_schema_script
    \/ db_create_schema_commit
    \/ db_create_schema_close
    \/ db_create_procedures_connect
    \/ db_create_procedures_script
    \/ db_create_procedures_commit
    \/ db_create_procedures_close
    \/ init_admin
    \/ db_add_user_connect
    \/ db_add_user_execute
    \/ db_add_user_commit
    \/ db_add_user_close
    \/ init_save
    \/ init_log
    \/ imp
    \/ imp_next
    \/ imp_done
    \/ imp_chal_parse
    \/ imp_chal_connect
    \/ imp_chal_describe
    \/ imp_chal_execute
    \/ imp_chal_close

Spec == Init /\ [][Next]_vars

-----------------------------------------------------------------------------
(* db_create_procedures on its own, called over any store *)

\* The stores the procedure installer is called over: no database, an empty
\* one, and the schema with and without routines and rows.
ProcedureStores ==
    {AbsentDB, EmptyDB} \cup
    {[BaselineDB EXCEPT !.procs = p, !.users = u, !.challenges = c] :
        p \in {{}, Routines},
        u \in {<<>>, <<OldAdmin>>, <<OldUser>>, <<OldAdmin, OldUser>>},
        c \in {<<>>, <<OldChallenge>>}}

InitProcedures ==
    /\ db \in ProcedureStores
    /\ conns = <<>>
    /\ pc = "db_create_procedures"
    /\ runs = 1
    /\ args = [command |-> "init", yes |-> FALSE, users |-> FALSE,
               public_files_uri |-> DefaultPublicFolder]
    /\ resp = "y"
    /\ stream = <<>>
    /\ call = None
    /\ ret = None
    /\ chal_info = None
    /\ description = None
    /\ log = <<>>
    /\ exc = NoExc
    /\ pre = db
    /\ dropped = <<>>
    /\ adminIdx = AdminPositions(db)

NextProcedures ==
    \/ db_create_procedures_connect
    \/ db_create_procedures_script
    \/ db_create_procedures_commit
    \/ db_create_procedures_close
    \/ ProcessExit

SpecProcedures == InitProcedures /\ [][NextProcedures]_vars

-----------------------------------------------------------------------------
(* Properties *)

Count(e, events) == Cardinality({k \in 1..Len(events) : events[k] = e})

IsPrefix(a, b) == Len(a) <= Len(b) /\ a = SubSeq(b, 1, Len(a))

\* row is what imp inserts for record rec, for some salt.
IsRowOf(row, rec) == \E salt \in Salts : row = InsertedUser(imp_call(rec), salt)

\* The accounts of records 1..n of the stream are committed, in order, after
\* the rows the store held when the process started.
Committed(n) ==
    /\ Len(db.users) >= Len(pre.users) + n
    /\ SubSeq(db.users, 1, Len(pre.users)) = pre.users
    /\ \A j \in 1..n : IsRowOf(db.users[Len(pre.users) + j], stream[j])

Failed == exc # NoExc

\* C1: bulk import is fail-fast.  Once the insertion of record i has failed,
\* the process does nothing but die: exactly the accounts of records 1..i-1
\* are in the store, record i is the last record read, and no INSERT was
\* sent for any later record.
C1_FailFast ==
    (args.command = "import_users" /\ Failed) =>
        /\ pc \in {"raised", "idle"}
        /\ Committed(Len(stream) - 1)
        /\ Len(db.users) = Len(pre.users) + Len(stream) - 1
        /\ Count("INSERT users", log) <= Len(stream)
        /\ Count("connect target", log) <= Len(stream)

\* C1 witness: record 2 violates uniqueness, one account was inserted.
C1_Witness ==
    /\ args.command = "import_users"
    /\ pc = "raised"
    /\ exc.kind = "ConstraintViolation"
    /\ Len(stream) = 2
    /\ Len(db.users) = Len(pre.users) + 1

\* The number of records of the stream whose db_add_user call has committed.
RecordsDone ==
    IF pc \in {"au_close", "imp_loop", "exit0", "imp"} \/ (pc = "idle" /\ ~Failed)
    THEN Len(stream) ELSE Len(stream) - 1

\* C2: in an import every insertion is its own committed transaction on its
\* own connection: while record i is being inserted, and after it has failed,
\* the accounts of records 1..i-1 are committed in the store, their
\* connections are closed and hold no uncommitted write.
C2_OwnTransaction ==
    (args.command = "import_users" /\ Len(stream) >= 1) =>
        /\ Committed(RecordsDone)
        /\ pc # "idle" =>
            /\ Len(conns) \in {Len(stream) - 1, Len(stream)}
            /\ \A j \in 1..Len(conns) :
                j < Len(stream) =>
                    ~conns[j].open /\ conns[j].pending = NoDelta

\* C2 witness: record 3 fails after records 1 and 2 were committed.
C2_Witness ==
    /\ args.command = "import_users"
    /\ pc = "raised"
    /\ exc.fn = "db_add_user"
    /\ Len(stream) = 3
    /\ Len(db.users) = Len(pre.users) + 2

\* db_create_schema has returned.
SchemaSucceeded == args.command = "init" /\ pc = "db_create_procedures"

\* db_create_schema has raised.
SchemaFailed == Failed /\ exc.fn = "db_create_schema"

\* C3 as stated: after db_create_schema ends the target database holds the
\* full relation set and the call succeeded, or holds none of it and the
\* call failed.
C3_Stated ==
    (SchemaSucceeded \/ SchemaFailed) =>
        \/ SchemaSucceeded /\ db.relations = SchemaRelations
        \/ SchemaFailed /\ db.relations = {}

\* C3 as amended: the schema is never partially applied.  After
\* db_create_schema ends the target database holds the full relation set
\* (the call succeeded, or it failed at the administrative connection or at
\* DROP DATABASE and the prior database is untouched) or holds none of it and
\* the call failed; a failure inside the schema script commits nothing.
C3_NoPartialSchema ==
    /\ db.relations \in {{}, SchemaRelations}
    /\ SchemaSucceeded => db.relations = SchemaRelations
    /\ SchemaFailed =>
        \/ db.relations = {}
        \/ exc.line \in {39, 42} /\ db = pre /\ dropped = <<>>
    /\ (SchemaFailed /\ exc.line = 48) => db = EmptyDB

\* C3 witness: the second statement of the script went through, the third
\* failed, and the store holds an empty database.
C3_Witness ==
    /\ pc = "raised"
    /\ exc.line = 48
    /\ conns[cur].pending.relations = Applied(2)
    /\ db = EmptyDB

\* C4: whatever the store held before, every successful db_create_schema
\* ends with the baseline schema and no rows, the first one and the one
\* after it alike.
C4_Idempotent == SchemaSucceeded => db = BaselineDB

\* C4 witness: a second successful db_create_schema, over a store that holds
\* the administrator the first bootstrap created.
C4_Witness ==
    /\ SchemaSucceeded
    /\ runs = 2
    /\ \E k \in 1..Len(pre.users) : pre.users[k].name = "Bob"
    /\ db = BaselineDB

\* C5: once step 1 of db_create_schema has failed (the administrative
\* connection, DROP DATABASE or CREATE DATABASE), the process does nothing but
\* die: no target database has been created (it is absent, or it is the
\* prior one, untouched), no connection to the target was opened and the
\* schema script was not executed.
C5_Step1Failure ==
    (SchemaFailed /\ exc.line \in {39, 42, 43}) =>
        /\ pc \in {"raised", "idle"}
        /\ "connect target" \notin {log[k] : k \in 1..Len(log)}
        /\ "schema.sql" \notin {log[k] : k \in 1..Len(log)}
        /\ \A j \in 1..Len(conns) : conns[j].target = "postgres"
        /\ \/ ~db.exists
           \/ db = pre /\ dropped = <<>>

\* C5 witness: CREATE DATABASE failed after a populated database was dropped.
C5_Witness ==
    /\ pc = "raised"
    /\ exc.line = 43
    /\ dropped = <<ProvisionedDB>>
    /\ ~db.exists

\* The store interactions of db_create_schema, in the order of the source.
SchemaOrder ==
    <<"connect postgres", "DROP DATABASE", "CREATE DATABASE", "close postgres",
      "connect target", "schema.sql", "commit", "close target">>

\* C6: within db_create_schema the store interactions happen one at a time
\* in the order drop, create, populate: CREATE runs when the database is
\* gone, the script runs when the database exists, is empty and the
\* administrative connection is closed, and never two connections are open.
C6_Sequential ==
    args.command = "init" =>
        /\ IsPrefix(SubSeq(log, 1, IF Len(log) < Len(SchemaOrder) THEN Len(log)
                                   ELSE Len(SchemaOrder)), SchemaOrder)
        /\ pc = "cs_create" => ~db.exists /\ dropped # <<>>
        /\ pc \in {"cs_script", "cs_commit"} =>
            /\ db = EmptyDB
            /\ conns[1].target = "postgres" /\ ~conns[1].open
        /\ Cardinality({j \in 1..Len(conns) : conns[j].open}) <= 1

\* C6 witness: db_create_schema has run to its end.
C6_Witness == SchemaSucceeded /\ log = SchemaOrder

\* The step appends event e to the log.
Logs(e) == Len(log') = Len(log) + 1 /\ log'[Len(log')] = e

\* C7: DROP DATABASE is executed only by init and only after the proceed
\* question was answered y or Y; any other answer to it ends the run with no
\* store interaction, and a run that is exiting touches the store no more.
C7_DropOnlyAccepted ==
    [][ /\ (Logs("DROP DATABASE") \/ (db.exists /\ ~db'.exists)) =>
            /\ args.command = "init"
            /\ pc = "cs_drop"
            /\ resp \in {"y", "Y"}
        /\ (pc = "init_ask" /\ resp' \notin {"y", "Y"}) =>
            /\ pc' = "exit1"
            /\ log' = <<>>
            /\ db' = db
        /\ pc = "exit1" => (pc' = "idle" /\ db' = db /\ log' = log)
      ]_vars

\* C7 witness: the database was dropped after the operator typed Y.
C7_Witness ==
    /\ args.command = "init"
    /\ ~args.yes
    /\ resp = "Y"
    /\ dropped = <<ProvisionedDB>>
    /\ ~db.exists

\* C8 as stated: when an operation has returned or raised, no connection it
\* opened is open with an unfinished transaction.
C8_Stated ==
    pc \in {"raised", "exit0", "exit1"} =>
        \A j \in 1..Len(conns) : ~(conns[j].open /\ conns[j].tx # "idle")

\* C9: every account committed through db_add_admin has admin and hidden
\* set and no team, and db_add_admin never calls db_add_user otherwise.
C9_AdminFlags ==
    /\ \A k \in adminIdx :
        /\ k \in 1..Len(db.users)
        /\ db.users[k].admin /\ db.users[k].hidden
        /\ db.users[k].team_id = None
    /\ ret = "db_add_admin" =>
        call.admin /\ call.hidden /\ call.team_id = None

\* C9 witness: init has committed a new administrator.
C9_Witness ==
    /\ pc = "au_close"
    /\ ret = "db_add_admin"
    /\ Len(db.users) \in adminIdx
    /\ db.users[Len(db.users)].name = "Bob"

\* C10: every challenge row in the store is inactive, hidden and without
\* writeup, whatever the descriptor it came from carries.
C10_ChallengeFlags ==
    \A k \in 1..Len(db.challenges) :
        /\ ~db.challenges[k].active
        /\ db.challenges[k].hidden
        /\ ~db.challenges[k].writeup

\* C10 witness: a descriptor with keys active, hidden and writeup of its own
\* has been imported.
C10_Witness ==
    /\ pc = "ic_close"
    /\ chal_info = Descriptor3
    /\ Len(db.challenges) = Len(pre.challenges) + 1
    /\ db.challenges[Len(db.challenges)].name = Descriptor3.title

\* The tokens bcrypt can produce for the secrets in use.
Credentials == {hashpw(secret, salt) : secret \in Secrets, salt \in Salts}

\* The rows written on a connection and not yet committed.
PendingUsers(j) == {conns[j].pending.users[k] : k \in 1..Len(conns[j].pending.users)}

\* C11: the credential of every account row, committed or about to be, is
\* the salted hash of a secret and never a secret; the row db_add_user writes
\* carries the hash of the password it was called with; and when hashing
\* fails no INSERT was sent and nothing is written.
C11_HashedCredential ==
    /\ \A k \in 1..Len(db.users) :
        db.users[k].password \in Credentials /\ db.users[k].password \notin Secrets
    /\ \A j \in 1..Len(conns) : \A row \in PendingUsers(j) :
        /\ row.password \notin Secrets
        /\ \E salt \in Salts : row.password = hashpw(call.password, salt)
    /\ (pc = "raised" /\ exc.kind = "HashingError") =>
        /\ log[Len(log)] = "connect target"
        /\ conns[cur].pending = NoDelta /\ conns[cur].tx = "idle"
        /\ Len(db.users) = IF ret = "imp" THEN Len(pre.users) + Len(stream) - 1 ELSE 0

\* C11 witness: an imported account is committed with the hash of field 6.
C11_Witness ==
    /\ args.command = "import_users"
    /\ pc = "au_close"
    /\ call.password = "pw2"
    /\ db.users[Len(db.users)].password = hashpw("pw2", "salt2")

\* C12: the account row of every imported record has no nickname, is neither
\* admin nor hidden, has no team, and carries fields 1, 2, 4, 5 of the record
\* as name, surname, mail, affiliation and the hash of field 6.
C12_ImportedRow ==
    (args.command = "import_users" /\ Len(stream) >= 1) =>
        /\ Len(db.users) = Len(pre.users) + RecordsDone
        /\ \A j \in 1..RecordsDone :
            LET row == db.users[Len(pre.users) + j]
                rec == stream[j]
            IN  /\ row.nickname = None
                /\ ~row.admin /\ ~row.hidden
                /\ row.team_id = None
                /\ row.name = rec[1] /\ row.surname = rec[2]
                /\ row.mail = rec[4] /\ row.affiliation = rec[5]
                /\ \E salt \in Salts : row.password = hashpw(rec[6], salt)

\* C12 witness: a record whose nickname field is "bo" is committed.
C12_Witness ==
    /\ args.command = "import_users"
    /\ pc = "au_close"
    /\ stream[Len(stream)][3] = "bo"
    /\ db.users[Len(db.users)].mail = "bo@ctf"

\* The href the claim describes: the base URI, then the filename.
UriJoin(base, f) ==
    IF base[Len(base)] = "/" THEN base \o f ELSE base \o <<"/">> \o f

RECURSIVE Links(_, _)
\* One link per file, in order, each to the file under the base URI.
Links(base, files) ==
    IF files = <<>> THEN <<>>
    ELSE <<"<li><a href=\"">> \o UriJoin(base, Head(files)) \o <<"\">">>
            \o Head(files) \o <<"</a></li>">> \o Links(base, Tail(files))

\* C13 as stated: the stored description is the descriptor's description,
\* unmodified when public_files is empty and otherwise followed by one list
\* with one link per file, in order, each href the base URI joined with the
\* filename and each text the filename; the tags are stored joined with "/".
C13_Stated ==
    (args.command = "import_challenge" /\ pc = "ic_close") =>
        LET row == db.challenges[Len(db.challenges)]
        IN  /\ row.description =
                IF chal_info.public_files = <<>> THEN chal_info.description
                ELSE chal_info.description
                        \o <<"<br><br><p><b>Public Files:</b></p><ul>">>
                        \o Links(args.public_files_uri, chal_info.public_files)
                        \o <<"</ul>">>
            /\ row.tags = Join(<<"/">>, chal_info.tags)

\* C14 as stated: a descriptor missing a required field is rejected before
\* any store interaction, so no connection was opened.
C14_Stated ==
    (args.command = "import_challenge" /\ exc.kind = "MalformedInput") =>
        log = <<>>

\* C15 as stated: a record whose arity is not six is rejected as malformed
\* before any store interaction for it, and no row is inserted from it.
C15_Stated ==
    args.command = "import_users" =>
        \A j \in 1..Len(stream) :
            Len(stream[j]) # 6 =>
                /\ j = Len(stream)
                /\ exc.kind = "MalformedInput"
                /\ Count("connect target", log) = j - 1

\* The step keeps every committed row, in place and unchanged.
RowsKept ==
    /\ IsPrefix(db.users, db'.users)
    /\ IsPrefix(db.challenges, db'.challenges)

\* C16 as stated: no step of the core changes or removes a committed account
\* or challenge row.
C16_Stated == [][RowsKept]_vars

\* C16 as amended: the only step that changes or removes a committed row is
\* the DROP DATABASE of db_create_schema, which removes them all; every other
\* step of every operation keeps every committed row in place and unchanged.
C16_RowsKeptButByDrop ==
    [][RowsKept \/ (pc = "cs_drop" /\ db' = AbsentDB)]_vars

\* C16 witness: a challenge was imported into a populated store, and the
\* rows that were there are still there.
C16_Witness ==
    /\ args.command = "import_challenge"
    /\ pc = "ic_close"
    /\ pre = ProvisionedDB
    /\ db.users = pre.users
    /\ db.challenges = Append(pre.challenges, InsertedChallenge(chal_info, description))

\* The number of db_add_user calls the process has made.
Calls ==
    IF args.command = "import_users" THEN Len(stream)
    ELSE IF ret = "db_add_admin" THEN 1 ELSE 0

\* C17: a db_add_user call sends at most one INSERT; its commit adds exactly
\* one row, the one of the call's arguments, and changes nothing else; no
\* other step of the call changes the store; and when the INSERT fails the
\* call is left at once with the exception as raised, nothing written, and
\* the store stays as it was.
C17_OneAttempt ==
    [][ /\ Count("INSERT users", log') <= Calls'
        /\ pc = "au_commit" =>
            \E salt \in Salts :
                db' = [db EXCEPT !.users = Append(@, InsertedUser(call, salt))]
        /\ pc \in {"db_add_user", "au_execute", "au_close"} => db' = db
        /\ (pc = "au_execute" /\ pc' # "au_commit") =>
            /\ pc' = "raised"
            /\ exc'.fn = "db_add_user"
            /\ conns'[cur].pending = NoDelta
        /\ pc = "raised" => (pc' = "idle" /\ db' = db /\ exc' = exc)
      ]_vars

\* C17 witness: the first record of an import violated uniqueness and the
\* store is as it was.
C17_Witness ==
    /\ args.command = "import_users"
    /\ pc = "raised"
    /\ exc.kind = "ConstraintViolation"
    /\ Len(stream) = 1
    /\ db = pre
    /\ Count("INSERT users", log) = 1

\* The store interactions of init, in the order of the source.
InitOrder ==
    SchemaOrder
        \o <<"connect target", "procedures.sql", "commit", "close target">>
        \o <<"connect target", "INSERT users", "commit", "close target">>

\* C18: init runs schema installation, procedure installation and the
\* administrator's insertion once each and in that order: the procedures are
\* installed over the committed schema, the administrator is inserted over
\* the committed procedures, each step on a connection of its own after the
\* previous one was closed, and once a step has failed nothing follows.
C18_BootstrapOrder ==
    args.command = "init" =>
        /\ IsPrefix(log, InitOrder)
        /\ pc \in {"db_create_procedures", "cp_script", "cp_commit", "cp_close"} =>
            /\ db.relations = SchemaRelations
            /\ \A j \in 1..Len(conns) : j < 3 => ~conns[j].open
        /\ pc \in {"init_admin", "db_add_user", "au_execute", "au_commit", "au_close"} =>
            /\ db.relations = SchemaRelations
            /\ db.procs = Routines
            /\ \A j \in 1..Len(conns) : j < 4 => ~conns[j].open
        /\ Failed => pc \in {"raised", "idle"}

\* C18 witness: the three steps of the bootstrap have run to their end.
C18_Witness ==
    /\ args.command = "init"
    /\ pc = "init_save"
    /\ log = InitOrder
    /\ Len(db.users) = 1

\* db_create_procedures has returned.
ProceduresReturned == pc = "init_admin"

\* C19, for db_create_procedures called over any store: it uses one
\* connection and commits at most once; the routines in the store are the
\* ones that were there, or those and all the routines of the script, never
\* some of them; it leaves the database, its relations, its account rows and
\* its challenge rows as they were; when it returns all routines are
\* installed, when it fails the store is as it was; and without the schema it
\* fails with nothing committed.
C19_ProceduresAtomic ==
    /\ Len(conns) <= 1
    /\ Count("commit", log) <= 1
    /\ db.procs \in {pre.procs, pre.procs \cup Routines}
    /\ db.exists = pre.exists
    /\ db.relations = pre.relations
    /\ db.users = pre.users
    /\ db.challenges = pre.challenges
    /\ ProceduresReturned => Routines \subseteq db.procs
    /\ Failed => db = pre
    /\ ~ProceduresRunnable(pre.relations) =>
        /\ pc \notin {"cp_commit", "cp_close", "init_admin"}
        /\ db = pre

\* C19 witness: the script failed over a database without the schema, and
\* the database is as it was.
C19_Witness ==
    /\ pc = "raised"
    /\ exc.fn = "db_create_procedures"
    /\ exc.line = 55
    /\ pre = EmptyDB
    /\ db = EmptyDB

\* init has stopped after db_create_procedures returned.
BootstrapStopped ==
    /\ args.command = "init"
    /\ pc \in {"exit1", "raised", "idle"}
    /\ Count("close target", log) >= 2

\* C20: when init stops after the procedures were installed (the passwords
\* differ, the administrator's insertion fails, a later question is refused),
\* nothing is undone: the prior database was dropped and its rows are gone,
\* the new schema and the procedures are committed, and unless the
\* administrator's row was committed the store holds no account at all.
C20_AbortNotUndone ==
    BootstrapStopped =>
        /\ dropped = <<pre>>
        /\ db.exists
        /\ db.relations = SchemaRelations
        /\ db.procs = Routines
        /\ db.challenges = <<>>
        /\ IF Count("close target", log) = 3
           THEN Len(db.users) = 1 /\ adminIdx = {1}
           ELSE db.users = <<>>

\* C20 witness: the two passwords typed differ, after a populated database
\* was dropped; the store holds the new schema and no account.
C20_Witness ==
    /\ BootstrapStopped
    /\ pc = "exit1"
    /\ ret = None
    /\ dropped = <<ProvisionedDB>>
    /\ db = [BaselineDB EXCEPT !.procs = Routines]

====
